---- MODULE Spec2Model ----
(***************************************************************************)
(* The Android callback server of secure-askpass                           *)
(* (src/askpass-android-server.py): the single-use challenge store, the    *)
(* signature verification, the result cell, the HTTP handler and           *)
(* run_server with its server thread.                                      *)
(*                                                                         *)
(* Time is an integer clock `now` (time.time() rounded down).  The steps   *)
(* of the controller that do not block take no time; the steps of the      *)
(* server thread may be delayed for any time by the scheduler or the peer. *)
(***************************************************************************)
EXTENDS Integers, Sequences, FiniteSets, TLC

(* ---------------------------------------------------------------- bounds *)

\* The clock stops at MaxTime.
MaxTime == 5
\* Connections accepted during one run_server call.
MaxRequests == 2
\* ChallengeStore(ttl=...): 30 in the source, scaled down.
Ttl == 2
\* run_server(..., timeout=...): 30 in the source, scaled down.
Timeout == 1
\* run_server is called at a time up to MaxStart.
MaxStart == 1
\* Threads that call the ChallengeStore and AuthResult methods directly.
NThreads == 3
\* Method calls they make in all.
MaxOps == 4
\* Calls of AuthResult.set made directly.
MaxSets == 3
\* The longest timeout given to AuthResult.wait.
MaxWait == 2
\* run_server calls made in one process.
MaxCalls == 2

(* ----------------------------------------------------- program constants *)

\* server.timeout = 1
ServerTimeout == 1
\* server_thread.join(timeout=timeout + 2)
Grace == 2
\* if content_length > 4096
MaxBody == 4096

(* ------------------------------------------------------------ JSON values *)

\* A JSON value as json.loads returns it, or the None that dict.get returns for
\* a missing key.
JAbsent == [t |-> "absent", v |-> ""]
JStr(s) == [t |-> "str", v |-> s]
JNum(s) == [t |-> "num", v |-> s]
JList == [t |-> "list", v |-> "x"]

\* Python's truth value of a JSON value (`not nonce`).
Falsy(j) ==
    \/ j.t = "absent"
    \/ j.t = "str" /\ j.v = ""
    \/ j.t = "num" /\ j.v = "0"

\* dict keys must be hashable: a list raises TypeError.
Hashable(j) == j.t # "list"

\* str.encode(): the UTF-8 bytes of a string.
Encode(s) == [utf8 |-> s]

(* ---------------------------------------------------------- ChallengeStore *)

NoEntry == [data |-> "none", created |-> -1]

\* Mutant: dict.setdefault, an entry already present is kept.
StoreAddIfAbsent(ch, n, d, t) ==
    [k \in DOMAIN ch \cup {n} |->
        IF k \in DOMAIN ch THEN ch[k] ELSE [data |-> d, created |-> t]]

\* ChallengeStore.add under the lock: self._challenges[nonce] = {...}
StoreAdd(ch, n, d, t) ==
    [k \in DOMAIN ch \cup {n} |-> IF k = n THEN [data |-> d, created |-> t] ELSE ch[k]]

\* Mutant: dict.get in place of dict.pop, the entry stays.
DictGet(ch, j) ==
    IF j.t = "str" /\ j.v \in DOMAIN ch
    THEN [entry |-> ch[j.v], rest |-> ch]
    ELSE [entry |-> NoEntry, rest |-> ch]

\* Mutant: a lookup of a missing key empties the dict.
DictPopOrClear(ch, j) ==
    IF j.t = "str" /\ j.v \in DOMAIN ch
    THEN [entry |-> ch[j.v], rest |-> [k \in DOMAIN ch \ {j.v} |-> ch[k]]]
    ELSE [entry |-> NoEntry, rest |-> << >>]

\* self._challenges.pop(nonce, None): the entry, and the dict without it.
DictPop(ch, j) ==
    IF j.t = "str" /\ j.v \in DOMAIN ch
    THEN [entry |-> ch[j.v], rest |-> [k \in DOMAIN ch \ {j.v} |-> ch[k]]]
    ELSE [entry |-> NoEntry, rest |-> ch]

\* Mutant: no TTL test.
ExpiredNever(created, t, ttl) == FALSE

\* Mutant: >= in place of >.
ExpiredAtTtl(created, t, ttl) == t - created >= ttl

\* time.time() - entry["created"] > self.ttl
Expired(created, t, ttl) == t - created > ttl

\* What validate_and_consume returns for a popped entry at time t.
ConsumeResult(entry, t, ttl) ==
    IF entry = NoEntry THEN "None"
    ELSE IF Expired(entry.created, t, ttl) THEN "None"
    ELSE entry.data

\* Mutant: the lookup reads the entry and leaves the store as it was.
validate_and_keep(ch, j, t, ttl) ==
    [ret |-> ConsumeResult(DictGet(ch, j).entry, t, ttl), store |-> ch]

\* ChallengeStore.validate_and_consume, the whole critical section.
validate_and_consume(ch, j, t, ttl) ==
    LET p == DictPop(ch, j)
    IN  [ret |-> ConsumeResult(p.entry, t, ttl), store |-> p.rest]

(* -------------------------------------------------------- verify_signature *)

\* Signatures as bytes: the algorithm, the private key that signed, the message.
Sig(alg, by, msg) == [alg |-> alg, by |-> by, over |-> msg]
GarbageSig == [alg |-> "none", by |-> "nobody", over |-> Encode("")]

\* load_pem_public_key(pubkey_pem.encode()): the key, or an exception
\* (unparsable text such as "unused"; None has no encode()).
LoadPem(pem) ==
    CASE pem = "PEM_ED_DEV" -> [ok |-> TRUE, family |-> "ed25519", id |-> "dev_ed"]
      [] pem = "PEM_EC_DEV" -> [ok |-> TRUE, family |-> "ec", id |-> "dev_ec"]
      [] pem = "PEM_RSA" -> [ok |-> TRUE, family |-> "rsa", id |-> "dev_rsa"]
      [] OTHER -> [ok |-> FALSE, family |-> "none", id |-> "none"]

\* Ed25519PublicKey.verify(signature, message): no exception.
Ed25519Verify(key, sig, msg) ==
    sig.alg = "ed25519" /\ sig.by = key.id /\ sig.over = msg

\* EllipticCurvePublicKey.verify(signature, message, ECDSA(SHA256())): no exception.
EcdsaVerify(key, sig, msg) ==
    sig.alg = "ecdsa" /\ sig.by = key.id /\ sig.over = msg

\* What load_pem_public_key(pubkey_pem.encode()) raises when it returns no key:
\* None has no encode(), other text is no PEM.
LoadPemError(pem) == IF pem = "None" THEN "AttributeError" ELSE "ValueError"

\* Mutant: except ValueError in place of except Exception.
CaughtValueErrorOnly(exc) == exc = "ValueError"

\* except Exception: every exception the body raises is caught.
Caught(exc) == TRUE

\* The body of the try block: the exception it ends with ("none": it returned
\* ret) and the verify methods it called.
VerifyBody(pem, msg, sig) ==
    LET pubkey == LoadPem(pem)
        ok == [exc |-> "none", ret |-> TRUE, paths |-> {pubkey.family}]
        bad == [exc |-> "InvalidSignature", ret |-> FALSE, paths |-> {pubkey.family}]
    IN  IF ~pubkey.ok THEN [exc |-> LoadPemError(pem), ret |-> FALSE, paths |-> {}]
        ELSE IF pubkey.family = "ed25519"
             THEN (IF Ed25519Verify(pubkey, sig, msg) THEN ok ELSE bad)
        ELSE IF pubkey.family = "ec"
             THEN (IF EcdsaVerify(pubkey, sig, msg) THEN ok ELSE bad)
        ELSE [exc |-> "none", ret |-> FALSE, paths |-> {}]

\* One call of verify_signature: the exception that leaves it ("none": it
\* returned ret) and the verify methods called.
VerifyRun(crypto, pem, msg, sig) ==
    LET body == VerifyBody(pem, msg, sig)
    IN  IF ~crypto THEN [exc |-> "none", ret |-> FALSE, paths |-> {}]
        ELSE IF body.exc = "none" THEN body
        ELSE IF Caught(body.exc) THEN [body EXCEPT !.exc = "none", !.ret = FALSE]
        ELSE body

\* Mutant: the HAS_CRYPTO test is left out.
verify_without_guard(crypto, pem, msg, sig) == VerifyRun(TRUE, pem, msg, sig).ret

\* verify_signature(pubkey_pem, message_bytes, signature_bytes), given HAS_CRYPTO:
\* the value it returns.
verify_signature(crypto, pem, msg, sig) == VerifyRun(crypto, pem, msg, sig).ret

(* ------------------------------------------------------------------ base64 *)

\* The base64 texts the peers send and the bytes they decode to.
B64Texts == {"ZWQtZGV2LW4x", "ZWMtZGV2LW4x", "ZWQtb3RoLW4x", "ZWQtZGV2LW4y", "AAAA"}

B64Bytes(s) ==
    CASE s = "ZWQtZGV2LW4x" -> Sig("ed25519", "dev_ed", Encode("n1"))
      [] s = "ZWMtZGV2LW4x" -> Sig("ecdsa", "dev_ec", Encode("n1"))
      [] s = "ZWQtb3RoLW4x" -> Sig("ed25519", "other_ed", Encode("n1"))
      [] s = "ZWQtZGV2LW4y" -> Sig("ed25519", "dev_ed", Encode("n2"))
      [] OTHER -> GarbageSig

\* base64.b64decode(signature_b64): bytes ("ok"), binascii.Error, a ValueError
\* ("value": wrong padding such as "abc"), or TypeError ("type": not a string).
b64decode(j) ==
    IF j.t # "str" THEN [st |-> "type", bytes |-> GarbageSig]
    ELSE IF j.v \in B64Texts THEN [st |-> "ok", bytes |-> B64Bytes(j.v)]
    ELSE [st |-> "value", bytes |-> GarbageSig]

(* ---------------------------------------------------------------- requests *)

\* A request body as the peer means it: a JSON object with the two fields, a JSON
\* array, or bytes that are no JSON; len is its length in bytes.
ObjDoc(n, s, len) == [kind |-> "obj", nonce |-> n, signature |-> s, len |-> len]
ArrayDoc == [kind |-> "array", nonce |-> JAbsent, signature |-> JAbsent, len |-> 8]
GarbageDoc(len) == [kind |-> "garbage", nonce |-> JAbsent, signature |-> JAbsent, len |-> len]

\* hdr: the Content-Length header is an integer ("int", its value n), not a
\* number ("text") or missing ("absent"); sent: the body bytes the peer sends;
\* eof: the peer closes its sending side after them.
Req(method, path, hdr, n, doc, sent, eof) ==
    [method |-> method, path |-> path, hdr |-> hdr, n |-> n, body |-> doc,
     sent |-> sent, eof |-> eof]

Post(doc) == Req("POST", "/auth/response", "int", doc.len, doc, doc.len, FALSE)

SigEd == JStr("ZWQtZGV2LW4x")
SigEc == JStr("ZWMtZGV2LW4x")
GoodDoc == ObjDoc(JStr("n1"), SigEd, 40)

Requests ==
    {Post(ObjDoc(JStr("n1"), s, 40)) :
        s \in {SigEd, SigEc, JStr("ZWQtb3RoLW4x"), JStr("ZWQtZGV2LW4y"), JStr("AAAA"),
               JStr("abc"), JNum("5"), JStr(""), JAbsent}}
    \cup {Post(ObjDoc(n, SigEd, 40)) :
        n \in {JStr("n2"), JStr(""), JAbsent, JNum("5"), JNum("0"), JList}}
    \cup {Post(ObjDoc(JStr("n2"), JStr("ZWQtZGV2LW4y"), 40))}
    \cup {Post(ArrayDoc), Post(GarbageDoc(40)), Post(GarbageDoc(5000)),
          Post(ObjDoc(JStr("n1"), SigEd, MaxBody)),
          Post(ObjDoc(JStr("n1"), SigEd, MaxBody + 1))}
    \cup {Req("POST", "/auth/response", "int", -1, GarbageDoc(5000), 5000, TRUE),
          Req("POST", "/auth/response", "int", -1, GoodDoc, 40, TRUE),
          Req("POST", "/auth/response", "text", 0, GoodDoc, 40, FALSE),
          Req("POST", "/auth/response", "absent", 0, GoodDoc, 40, FALSE),
          Req("POST", "/auth/response", "int", 40, GoodDoc, 10, FALSE),
          Req("POST", "/auth/response", "int", 40, GoodDoc, 10, TRUE),
          Req("POST", "/wrong", "int", 40, GoodDoc, 40, FALSE),
          Req("GET", "/auth/response", "int", 40, GoodDoc, 40, FALSE)}

NullReq == Req("", "", "absent", 0, GarbageDoc(0), 0, FALSE)

\* int(self.headers.get("Content-Length", 0)): the number, or ValueError.
ContentLength(req) ==
    CASE req.hdr = "absent" -> [ok |-> TRUE, n |-> 0]
      [] req.hdr = "int" -> [ok |-> TRUE, n |-> req.n]
      [] OTHER -> [ok |-> FALSE, n |-> 0]

\* content_length > 4096
TooLarge(n) == n > MaxBody

\* self.rfile.read(n) returns at n bytes or at the end of the stream; a negative
\* n reads to the end of the stream.
ReadBlocks(n, sent, eof) == ~eof /\ (n < 0 \/ n > sent)
BytesRead(n, sent) == IF n < 0 \/ n > sent THEN sent ELSE n

\* json.loads of the first k bytes of the body: a cut document is no JSON.
JsonLoads(doc, k) ==
    IF k = doc.len /\ doc.kind # "garbage"
    THEN [st |-> "ok", kind |-> doc.kind, nonce |-> doc.nonce, signature |-> doc.signature]
    ELSE [st |-> "error", kind |-> "none", nonce |-> JAbsent, signature |-> JAbsent]

(* --------------------------------------------------------------- AuthResult *)

\* Mutant: set() sets the event and does not store the value.
AuthSetEventOnly(cell, value) == [cell EXCEPT !.event = TRUE]

\* AuthResult.__init__ and AuthResult.set(value).
NewAuthResult == [result |-> "None", event |-> FALSE]
AuthSet(cell, value) == [result |-> value, event |-> TRUE]

\* Mutant: server_thread.join() with no timeout.
JoinForever(t, limit) == FALSE

\* server_thread.join(timeout=timeout + 2) gives up at its deadline.
JoinTimedOut(t, limit) == t >= limit

\* Mutant: the loop tests the deadline only.
ServeUntilDeadline(t, limit, res) == t < limit

\* while time.time() < deadline and auth_result._result is None
ServeContinues(t, limit, res) == t < limit /\ res = "None"

(* -------------------------------------------------------------------- state *)

VARIABLES
    now,            \* time.time()
    HAS_CRYPTO,     \* whether the cryptography package was imported
    challenges,     \* challenge_store._challenges: nonce -> entry
    auth_result,    \* auth_result: [result, event]
    device_pubkey_pem,
    socket,         \* the listening socket: "unbound", "bound", "closed"
    ctrlPc,         \* run_server's position
    callStart,      \* when run_server was called
    joinLimit,      \* when the join gives up
    retval,         \* what run_server returned
    returnedAt,     \* when it returned
    srvPc,          \* the server thread's position, in serve() or in do_POST
    deadline,       \* serve()'s deadline
    selectLimit,    \* when handle_request's wait for a connection ends
    cur,            \* the request being handled
    last,           \* the last request whose handling ended
    nReq,           \* connections accepted so far
    lookedUp,       \* nonces looked up since they were registered
    setBy,          \* the request whose handler called auth_result.set
    setCalls,       \* calls of auth_result.set
    earlyValid,     \* a valid request was accepted before serve()'s deadline
    okListening,    \* a 200 was sent while run_server was still joined
    lock,           \* challenge_store._lock: 0 when free, or the thread holding it
    thr,            \* the threads calling the methods directly: pc and locals
    nOps,           \* method calls made by them
    adds,           \* per nonce: registrations
    regAt,          \* per nonce: time of the latest registration
    wins,           \* per nonce: validate_and_consume calls that returned the payload
    expiredPops,    \* per nonce: calls that removed an expired entry
    timely,         \* per nonce: a call made after the registration returned within the TTL
    replaced,       \* per nonce: registrations that found the nonce present
    nSets,          \* direct calls of auth_result.set
    decidedAt,      \* when auth_result.set was first called directly (-1: not yet)
    waiter,         \* the thread in auth_result.wait: pc, call time, limit, return time, value
    vcall,          \* a direct call of verify_signature: pc, arguments, outcome
    call            \* the current run_server call: its number, its nonce, and the
                    \* count of auth_result.set calls when it began

svcVars == <<now, HAS_CRYPTO, challenges, auth_result, device_pubkey_pem, socket,
             ctrlPc, callStart, joinLimit, retval, returnedAt, srvPc, deadline,
             selectLimit, cur, last, nReq, lookedUp, setBy, setCalls, earlyValid,
             okListening>>

storeApiVars == <<lock, thr, nOps, adds, regAt, wins, expiredPops, timely, replaced>>
cellApiVars == <<nSets, decidedAt, waiter>>
apiVars == <<storeApiVars, cellApiVars, vcall, call>>

vars == <<svcVars, apiVars>>

\* What is recorded of a request: the body bytes read, the
\* status sent (0: none yet, -1: the handler ended with an uncaught exception),
\* and what the lookup saw: whether the registry was consulted, whether the
\* nonce was present, its age, whether it had been looked up before; the key the
\* signature was verified under.
Handling(r) ==
    [req |-> r, read |-> 0, status |-> 0, consulted |-> FALSE,
     present |-> FALSE, age |-> 0, replay |-> FALSE, key |-> "None"]
NoReq == Handling(NullReq)

(* ------------------------------------------------------------ run_server *)

ctrlVars == <<ctrlPc, callStart, joinLimit, retval, returnedAt>>
ghostVars == <<lookedUp, setBy, setCalls, earlyValid, okListening>>
reqVars == <<cur, last, nReq>>

\* The public keys a caller may configure: the paired device's Ed25519 or EC key,
\* a key of an unsupported family, text that is no PEM.
Pems == {"PEM_ED_DEV", "PEM_EC_DEV", "PEM_RSA", "unused"}

\* run_server is called: device_pubkey_pem = pubkey_pem; challenge_store.add(nonce, ...)
CallRunServer ==
    /\ ctrlPc = "idle"
    /\ \E pem \in Pems : device_pubkey_pem' = pem
    /\ challenges' = StoreAdd(challenges, "n1", "cmd", now)
    /\ lookedUp' = lookedUp \ {"n1"}
    /\ callStart' = now
    /\ ctrlPc' = "bind"
    /\ UNCHANGED <<apiVars, now, HAS_CRYPTO, auth_result, socket, joinLimit, retval, returnedAt,
                   srvPc, deadline, selectLimit, reqVars, setBy, setCalls, earlyValid,
                   okListening>>

\* server = HTTPServer(("0.0.0.0", port), CallbackHandler): binds, or raises OSError.
CtrlBind ==
    /\ ctrlPc = "bind"
    /\ \/ socket' = "bound" /\ ctrlPc' = "start" /\ returnedAt' = returnedAt
       \/ socket' = socket /\ ctrlPc' = "raised" /\ returnedAt' = now
    /\ UNCHANGED <<apiVars, now, HAS_CRYPTO, challenges, auth_result, device_pubkey_pem, callStart,
                   joinLimit, retval, srvPc, deadline, selectLimit, reqVars,
                   ghostVars>>

\* server_thread.start(); server_thread.join(timeout=timeout + 2) begins.
CtrlStart ==
    /\ ctrlPc = "start"
    /\ srvPc' = "init"
    /\ joinLimit' = now + Timeout + Grace
    /\ ctrlPc' = "join"
    /\ UNCHANGED <<apiVars, now, HAS_CRYPTO, challenges, auth_result, device_pubkey_pem, socket,
                   callStart, retval, returnedAt, deadline, selectLimit, reqVars,
                   ghostVars>>

\* server_thread.start() raises RuntimeError (no thread can be started) and the
\* exception leaves run_server.
CtrlStartFails ==
    /\ ctrlPc = "start"
    /\ ctrlPc' = "raised"
    /\ returnedAt' = now
    /\ UNCHANGED <<apiVars, now, HAS_CRYPTO, challenges, auth_result, device_pubkey_pem, socket,
                   callStart, joinLimit, retval, srvPc, deadline, selectLimit, reqVars,
                   ghostVars>>

\* A KeyboardInterrupt is raised in the controller while it is blocked in the
\* join; nothing in run_server catches it.
CtrlInterrupt ==
    /\ ctrlPc = "join"
    /\ ctrlPc' = "raised"
    /\ returnedAt' = now
    /\ UNCHANGED <<apiVars, now, HAS_CRYPTO, challenges, auth_result, device_pubkey_pem, socket,
                   callStart, joinLimit, retval, srvPc, deadline, selectLimit, reqVars,
                   ghostVars>>

\* After an exception left run_server, the server object is unreferenced once
\* the server thread is gone, and the interpreter may then close its socket.
SocketCollected ==
    /\ ctrlPc = "raised"
    /\ srvPc \in {"off", "done"}
    /\ socket = "bound"
    /\ socket' = "closed"
    /\ UNCHANGED <<apiVars, now, HAS_CRYPTO, challenges, auth_result, device_pubkey_pem,
                   ctrlVars, srvPc, deadline, selectLimit, reqVars, ghostVars>>

\* The join returns: the thread has ended, or the join's timeout has passed.
CtrlJoin ==
    /\ ctrlPc = "join"
    /\ srvPc = "done" \/ JoinTimedOut(now, joinLimit)
    /\ ctrlPc' = "close"
    /\ UNCHANGED <<apiVars, now, HAS_CRYPTO, challenges, auth_result, device_pubkey_pem, socket,
                   callStart, joinLimit, retval, returnedAt, srvPc, deadline, selectLimit,
                   reqVars, ghostVars>>

\* server.server_close()
CtrlClose ==
    /\ ctrlPc = "close"
    /\ socket' = "closed"
    /\ ctrlPc' = "result"
    /\ UNCHANGED <<apiVars, now, HAS_CRYPTO, challenges, auth_result, device_pubkey_pem,
                   callStart, joinLimit, retval, returnedAt, srvPc, deadline, selectLimit,
                   reqVars, ghostVars>>

\* result = auth_result._result; return result is True
CtrlReturn ==
    /\ ctrlPc = "result"
    /\ retval' = (auth_result.result = "True")
    /\ returnedAt' = now
    /\ ctrlPc' = "returned"
    /\ UNCHANGED <<apiVars, now, HAS_CRYPTO, challenges, auth_result, device_pubkey_pem, socket,
                   callStart, joinLimit, srvPc, deadline, selectLimit, reqVars, ghostVars>>

\* Time passes while the controller is outside run_server or blocked in the join,
\* and a join whose thread has ended or whose timeout has passed returns first.
Tick ==
    /\ now < MaxTime
    /\ ctrlPc \in {"idle", "join", "returned", "raised"}
    /\ ctrlPc = "idle" => now < MaxStart
    /\ ctrlPc = "join" => ~(srvPc = "done" \/ JoinTimedOut(now, joinLimit))
    /\ now' = now + 1
    /\ UNCHANGED <<apiVars, HAS_CRYPTO, challenges, auth_result, device_pubkey_pem, socket,
                   ctrlVars, srvPc, deadline, selectLimit, reqVars, ghostVars>>

\* A request that carries the nonce run_server registered and a signature over
\* it that verifies under the configured key.
ValidRequest(r) ==
    /\ r.method = "POST" /\ r.path = "/auth/response"
    /\ r.body.kind = "obj" /\ r.body.nonce = JStr("n1")
    /\ b64decode(r.body.signature).st = "ok"
    /\ verify_signature(HAS_CRYPTO, device_pubkey_pem, Encode("n1"),
                        b64decode(r.body.signature).bytes)

\* The first run_server call of the process registers n1.
FirstCall == [no |-> 1, nonce |-> "n1", sets0 |-> 0]

\* The nonce of the k-th call: each call has a nonce of its own.
CallNonce(k) == IF k % 2 = 1 THEN "n1" ELSE "n2"

\* run_server is called again in the same process, after an earlier call has
\* returned and its server thread has ended: challenge_store, auth_result and
\* the request counter are those the earlier call left.
CallRunServerAgain ==
    /\ ctrlPc = "returned"
    /\ srvPc = "done"
    /\ call.no < MaxCalls
    /\ call' = [no |-> call.no + 1, nonce |-> CallNonce(call.no + 1), sets0 |-> setCalls]
    /\ \E pem \in Pems : device_pubkey_pem' = pem
    /\ challenges' = StoreAdd(challenges, CallNonce(call.no + 1), "cmd", now)
    /\ lookedUp' = lookedUp \ {CallNonce(call.no + 1)}
    /\ callStart' = now
    /\ ctrlPc' = "bind"
    /\ UNCHANGED <<storeApiVars, cellApiVars, vcall, now, HAS_CRYPTO, auth_result, socket,
                   joinLimit, retval, returnedAt, srvPc, deadline, selectLimit, reqVars,
                   setBy, setCalls, earlyValid, okListening>>

\* The requests of a peer that holds the device's key: the nonce of either call
\* with the device's signature over it.
SignedRequests ==
    {Post(ObjDoc(JStr("n1"), SigEd, 40)), Post(ObjDoc(JStr("n2"), JStr("ZWQtZGV2LW4y"), 40))}

(* ------------------------------------------------------------------ serve() *)

\* deadline = time.time() + timeout
SrvInit ==
    /\ srvPc = "init"
    /\ deadline' = now + Timeout
    /\ srvPc' = "loop"
    /\ UNCHANGED <<apiVars, now, HAS_CRYPTO, challenges, auth_result, device_pubkey_pem, socket,
                   ctrlVars, selectLimit, reqVars, ghostVars>>

\* The loop test; handle_request then waits for a connection for server.timeout.
\* On a closed socket handle_request raises and the thread ends.
SrvLoop ==
    /\ srvPc = "loop"
    /\ IF ServeContinues(now, deadline, auth_result.result) /\ socket = "bound"
       THEN srvPc' = "select" /\ selectLimit' = now + ServerTimeout
       ELSE srvPc' = "done" /\ selectLimit' = selectLimit
    /\ UNCHANGED <<apiVars, now, HAS_CRYPTO, challenges, auth_result, device_pubkey_pem, socket,
                   ctrlVars, deadline, reqVars, ghostVars>>

\* handle_request: no connection came within server.timeout (handle_timeout), or
\* the socket was closed under the wait.
SrvSelectEnds ==
    /\ srvPc = "select"
    /\ IF socket = "bound" THEN now >= selectLimit /\ srvPc' = "loop"
       ELSE srvPc' = "done"
    /\ UNCHANGED <<apiVars, now, HAS_CRYPTO, challenges, auth_result, device_pubkey_pem, socket,
                   ctrlVars, deadline, selectLimit, reqVars, ghostVars>>

\* handle_request: a peer's connection is accepted and its request line and
\* headers are read.
SrvAccept ==
    /\ srvPc = "select"
    /\ socket = "bound"
    /\ nReq < MaxRequests
    /\ \E r \in Requests :
         /\ cur' = Handling(r)
         /\ earlyValid' = (earlyValid \/ (ValidRequest(r) /\ now < deadline))
    /\ last' = NoReq
    /\ nReq' = nReq + 1
    /\ srvPc' = "head"
    /\ UNCHANGED <<apiVars, now, HAS_CRYPTO, challenges, auth_result, device_pubkey_pem, socket,
                   ctrlVars, deadline, selectLimit, lookedUp, setBy, setCalls, okListening>>

\* handle_request: the connection of a peer that holds the device's key is
\* accepted.
SrvAcceptSigned ==
    /\ srvPc = "select"
    /\ socket = "bound"
    /\ nReq < MaxRequests
    /\ \E r \in SignedRequests :
         /\ cur' = Handling(r)
         /\ earlyValid' = (earlyValid \/ (ValidRequest(r) /\ now < deadline))
    /\ last' = NoReq
    /\ nReq' = nReq + 1
    /\ srvPc' = "head"
    /\ UNCHANGED <<apiVars, now, HAS_CRYPTO, challenges, auth_result, device_pubkey_pem, socket,
                   ctrlVars, deadline, selectLimit, lookedUp, setBy, setCalls, okListening>>

(* ------------------------------------------------------------------ do_POST *)

\* The handler ends with `status` sent (-1: with an uncaught exception, which
\* handle_request catches and logs): back to serve()'s loop.
Finish(c, status) ==
    /\ last' = [c EXCEPT !.status = status]
    /\ cur' = NoReq
    /\ srvPc' = "loop"

\* BaseHTTPRequestHandler answers a method without a do_ method with 501;
\* do_POST: the path, then the Content-Length header.
HandleHead ==
    /\ srvPc = "head"
    /\ LET cl == ContentLength(cur.req)
       IN  IF cur.req.method # "POST" THEN Finish(cur, 501)
           ELSE IF cur.req.path # "/auth/response" THEN Finish(cur, 404)
           ELSE IF ~cl.ok THEN Finish(cur, 400)
           ELSE IF TooLarge(cl.n) THEN Finish(cur, 413)
           ELSE srvPc' = "read" /\ UNCHANGED <<cur, last>>
    /\ UNCHANGED <<apiVars, now, HAS_CRYPTO, challenges, auth_result, device_pubkey_pem, socket,
                   ctrlVars, deadline, selectLimit, nReq, ghostVars>>

\* body = self.rfile.read(content_length); payload = json.loads(body);
\* payload.get(...) (AttributeError if the payload is no dict); the two fields.
HandleRead ==
    /\ srvPc = "read"
    /\ LET n == ContentLength(cur.req).n
           k == BytesRead(n, cur.req.sent)
           payload == JsonLoads(cur.req.body, k)
           c == [cur EXCEPT !.read = k]
       IN  /\ ~ReadBlocks(n, cur.req.sent, cur.req.eof)
           /\ IF payload.st # "ok" THEN Finish(c, 400)
              ELSE IF payload.kind # "obj" THEN Finish(c, -1)
              ELSE IF Falsy(payload.nonce) \/ Falsy(payload.signature) THEN Finish(c, 400)
              ELSE srvPc' = "lookup" /\ cur' = c /\ last' = last
    /\ UNCHANGED <<apiVars, now, HAS_CRYPTO, challenges, auth_result, device_pubkey_pem, socket,
                   ctrlVars, deadline, selectLimit, nReq, ghostVars>>

\* challenge_data = challenge_store.validate_and_consume(nonce)
HandleLookup ==
    /\ srvPc = "lookup"
    /\ LET nonce == cur.req.body.nonce
           known == nonce.t = "str" /\ nonce.v \in DOMAIN challenges
           r == validate_and_consume(challenges, nonce, now, Ttl)
           c == [cur EXCEPT !.consulted = TRUE,
                            !.present = known,
                            !.age = IF known THEN now - challenges[nonce.v].created ELSE 0,
                            !.replay = nonce.t = "str" /\ nonce.v \in lookedUp]
       IN  IF ~Hashable(nonce)
           THEN Finish(c, -1) /\ UNCHANGED <<challenges, lookedUp>>
           ELSE /\ challenges' = r.store
                /\ lookedUp' = IF nonce.t = "str" THEN lookedUp \cup {nonce.v} ELSE lookedUp
                /\ IF r.ret = "None" THEN Finish(c, 403)
                   ELSE srvPc' = "verify" /\ cur' = c /\ last' = last
    /\ UNCHANGED <<apiVars, now, HAS_CRYPTO, auth_result, device_pubkey_pem, socket, ctrlVars,
                   deadline, selectLimit, nReq, setBy, setCalls, earlyValid, okListening>>

\* signature_bytes = base64.b64decode(signature_b64) (TypeError is not caught,
\* binascii.Error is a ValueError); verify_signature(device_pubkey_pem, nonce.encode(), ...)
HandleVerify ==
    /\ srvPc = "verify"
    /\ LET d == b64decode(cur.req.body.signature)
           c == [cur EXCEPT !.key = device_pubkey_pem]
       IN  IF d.st = "type" THEN Finish(cur, -1)
           ELSE IF d.st = "value" THEN Finish(cur, 400)
           ELSE IF ~verify_signature(HAS_CRYPTO, device_pubkey_pem,
                                     Encode(cur.req.body.nonce.v), d.bytes)
           THEN Finish(c, 403)
           ELSE srvPc' = "send200" /\ cur' = c /\ last' = last
    /\ UNCHANGED <<apiVars, now, HAS_CRYPTO, challenges, auth_result, device_pubkey_pem, socket,
                   ctrlVars, deadline, selectLimit, nReq, ghostVars>>

\* self._send_json(200, {"status": "ok"}): the response is written; or the peer
\* has reset the connection, wfile.write raises an OSError that do_POST does not
\* catch, and the handler ends there.  (A failed write of an error response
\* changes nothing: no statement follows send_error.)
HandleSend200 ==
    /\ srvPc = "send200"
    /\ \/ /\ cur' = [cur EXCEPT !.status = 200]
          /\ okListening' = (okListening \/ (ctrlPc = "join" /\ socket = "bound"))
          /\ srvPc' = "set"
          /\ last' = last
       \/ /\ Finish(cur, -1)
          /\ okListening' = okListening
    /\ UNCHANGED <<apiVars, now, HAS_CRYPTO, challenges, auth_result, device_pubkey_pem, socket,
                   ctrlVars, deadline, selectLimit, nReq, lookedUp, setBy, setCalls,
                   earlyValid>>

\* auth_result.set(True); do_POST returns.
HandleSet ==
    /\ srvPc = "set"
    /\ auth_result' = AuthSet(auth_result, "True")
    /\ setBy' = cur
    /\ setCalls' = setCalls + 1
    /\ Finish(cur, 200)
    /\ UNCHANGED <<apiVars, now, HAS_CRYPTO, challenges, device_pubkey_pem, socket, ctrlVars,
                   deadline, selectLimit, nReq, lookedUp, earlyValid, okListening>>

(* ------------------------------------------- the methods, called directly *)

\* Threads call ChallengeStore.add, ChallengeStore.validate_and_consume and
\* AuthResult.set themselves, as the unit tests do, in any interleaving.
Threads == 1..NThreads
Nonces == {"n1", "n2"}

\* The challenge_data of the k-th registration of a nonce (from 0): each
\* registration carries a payload of its own.
ChallengeData(k) ==
    CASE k = 0 -> "cmd"
      [] k = 1 -> "cmd1"
      [] k = 2 -> "cmd2"
      [] k = 3 -> "cmd3"
      [] OTHER -> "cmd4"

IdleThread == [pc |-> "idle", op |-> "none", nonce |-> "n1", entry |-> NoEntry,
               ret |-> "None", age |-> 0, after |-> FALSE]

svcRest == <<HAS_CRYPTO, device_pubkey_pem, socket, ctrlVars, srvPc, deadline,
             selectLimit, reqVars, ghostVars, vcall, call>>

\* A thread calls add(n, ...) or validate_and_consume(n) and waits for the lock.
ApiCall(th) ==
    /\ thr[th].pc = "idle"
    /\ nOps < MaxOps
    /\ \E op \in {"add", "consume"}, n \in Nonces :
         thr' = [thr EXCEPT ![th] = [IdleThread EXCEPT !.pc = "acquire", !.op = op,
                                                      !.nonce = n]]
    /\ nOps' = nOps + 1
    /\ UNCHANGED <<cellApiVars, now, challenges, auth_result, svcRest, lock, adds, regAt, wins,
                   expiredPops, timely, replaced>>

\* with self._lock:
ApiAcquire(th) ==
    /\ thr[th].pc = "acquire"
    /\ lock = 0
    /\ lock' = th
    /\ thr' = [thr EXCEPT ![th].pc = "locked"]
    /\ UNCHANGED <<cellApiVars, now, challenges, auth_result, svcRest, nOps, adds, regAt, wins,
                   expiredPops, timely, replaced>>

\* add: self._challenges[nonce] = {"data": ..., "created": time.time()}
ApiAdd(th) ==
    /\ thr[th].pc = "locked"
    /\ thr[th].op = "add"
    /\ challenges' = StoreAdd(challenges, thr[th].nonce,
                              ChallengeData(adds[thr[th].nonce]), now)
    /\ adds' = [adds EXCEPT ![thr[th].nonce] = @ + 1]
    /\ replaced' = IF thr[th].nonce \in DOMAIN challenges
                   THEN [replaced EXCEPT ![thr[th].nonce] = @ + 1] ELSE replaced
    /\ regAt' = [regAt EXCEPT ![thr[th].nonce] = now]
    /\ timely' = [timely EXCEPT ![thr[th].nonce] = FALSE]
    /\ thr' = [thr EXCEPT ![th].pc = "release"]
    /\ UNCHANGED <<cellApiVars, now, auth_result, svcRest, lock, nOps, wins, expiredPops>>

\* validate_and_consume: entry = self._challenges.pop(nonce, None)
ApiPop(th) ==
    /\ thr[th].pc = "locked"
    /\ thr[th].op = "consume"
    /\ LET p == DictPop(challenges, JStr(thr[th].nonce))
       IN  /\ challenges' = p.rest
           /\ thr' = [thr EXCEPT ![th].pc = "popped", ![th].entry = p.entry,
                                 ![th].after = adds[thr[th].nonce] > 0]
    /\ UNCHANGED <<cellApiVars, now, auth_result, svcRest, lock, nOps, adds, regAt, wins, expiredPops,
                   timely, replaced>>

\* validate_and_consume: the None test and the TTL test, at the time they run.
ApiCheck(th) ==
    /\ thr[th].pc = "popped"
    /\ thr' = [thr EXCEPT ![th].pc = "release",
                          ![th].ret = ConsumeResult(thr[th].entry, now, Ttl),
                          ![th].age = now - thr[th].entry.created]
    /\ UNCHANGED <<cellApiVars, now, challenges, auth_result, svcRest, lock, nOps, adds, regAt, wins,
                   expiredPops, timely, replaced>>

\* The lock is released and the method returns.
ApiReturn(th) ==
    /\ thr[th].pc = "release"
    /\ lock' = 0
    /\ thr' = [thr EXCEPT ![th] = IdleThread]
    /\ LET n == thr[th].nonce
           consume == thr[th].op = "consume"
       IN  /\ wins' = IF consume /\ thr[th].ret # "None"
                      THEN [wins EXCEPT ![n] = @ + 1] ELSE wins
           /\ expiredPops' = IF consume /\ thr[th].entry # NoEntry /\ thr[th].ret = "None"
                             THEN [expiredPops EXCEPT ![n] = @ + 1] ELSE expiredPops
           /\ timely' = IF consume /\ thr[th].after /\ now - regAt[n] <= Ttl
                        THEN [timely EXCEPT ![n] = TRUE] ELSE timely
    /\ UNCHANGED <<cellApiVars, now, challenges, auth_result, svcRest, nOps, adds, regAt,
                   replaced>>

ApiTick ==
    /\ now < MaxTime
    /\ now' = now + 1
    /\ UNCHANGED <<challenges, auth_result, svcRest, apiVars>>

(* ------------------------------------------------ AuthResult, called directly *)

cellRest == <<challenges, svcRest, storeApiVars>>

IdleWaiter == [pc |-> "idle", from |-> 0, limit |-> 0, at |-> 0, ret |-> "None", calls |-> 0]

\* auth_result.set(value), with any value.
CellSet ==
    /\ nSets < MaxSets
    /\ \E v \in {"True", "False"} : auth_result' = AuthSet(auth_result, v)
    /\ nSets' = nSets + 1
    /\ decidedAt' = IF nSets = 0 THEN now ELSE decidedAt
    /\ UNCHANGED <<now, cellRest, waiter>>

\* auth_result.wait(timeout) is called: self._event.wait(timeout) begins.
CellWaitCall ==
    /\ waiter.pc \in {"idle", "returned"}
    /\ waiter.calls < MaxSets
    /\ \E timeout \in 0..MaxWait :
         waiter' = [pc |-> "waiting", from |-> now, limit |-> now + timeout, at |-> 0,
                    ret |-> "None", calls |-> waiter.calls + 1]
    /\ UNCHANGED <<now, auth_result, cellRest, nSets, decidedAt>>

\* self._event.wait(timeout) returns: the event is set, or the timeout has passed.
CellWake ==
    /\ waiter.pc = "waiting"
    /\ auth_result.event \/ now >= waiter.limit
    /\ waiter' = [waiter EXCEPT !.pc = "woken"]
    /\ UNCHANGED <<now, auth_result, cellRest, nSets, decidedAt>>

\* return self._result
CellWaitReturn ==
    /\ waiter.pc = "woken"
    /\ waiter' = [waiter EXCEPT !.pc = "returned", !.ret = auth_result.result, !.at = now]
    /\ UNCHANGED <<now, auth_result, cellRest, nSets, decidedAt>>

\* Time passes, but not while the waiting thread can run: a wait whose event is
\* set or whose timeout has passed returns first.
CellTick ==
    /\ now < MaxTime
    /\ waiter.pc # "woken"
    /\ waiter.pc = "waiting" => ~(auth_result.event \/ now >= waiter.limit)
    /\ now' = now + 1
    /\ UNCHANGED <<auth_result, cellRest, cellApiVars>>

(* ------------------------------------------- verify_signature, called directly *)

\* The signatures and messages verify_signature is given.
Sigs == {B64Bytes(s) : s \in B64Texts}
Msgs == {Encode("n1"), Encode("n2")}

IdleCall == [pc |-> "idle", pem |-> "None", msg |-> Encode(""), sig |-> GarbageSig,
             out |-> [exc |-> "none", ret |-> FALSE, paths |-> {}]]

\* verify_signature(pem, msg, sig) is called, as the unit tests call it: with a
\* key text or the unset device_pubkey_pem (None).
VerifyCall ==
    /\ vcall.pc \in {"idle", "returned", "raised"}
    /\ \E pem \in Pems \cup {"None"}, msg \in Msgs, sig \in Sigs :
         vcall' = [IdleCall EXCEPT !.pc = "called", !.pem = pem, !.msg = msg, !.sig = sig]
    /\ UNCHANGED <<now, challenges, auth_result, HAS_CRYPTO, device_pubkey_pem, socket,
                   ctrlVars, srvPc, deadline, selectLimit, reqVars, ghostVars,
                   storeApiVars, cellApiVars, call>>

\* The call ends: it returns a value or an exception leaves it.
VerifyEnd ==
    /\ vcall.pc = "called"
    /\ LET out == VerifyRun(HAS_CRYPTO, vcall.pem, vcall.msg, vcall.sig)
       IN  vcall' = [vcall EXCEPT !.pc = IF out.exc = "none" THEN "returned" ELSE "raised",
                                  !.out = out]
    /\ UNCHANGED <<now, challenges, auth_result, HAS_CRYPTO, device_pubkey_pem, socket,
                   ctrlVars, srvPc, deadline, selectLimit, reqVars, ghostVars,
                   storeApiVars, cellApiVars, call>>

(* ------------------------------------------------------------ specification *)

Init ==
    /\ now = 0
    /\ HAS_CRYPTO \in BOOLEAN
    /\ challenges = << >>
    /\ auth_result = NewAuthResult
    /\ device_pubkey_pem = "None"
    /\ socket = "unbound"
    /\ ctrlPc = "idle"
    /\ callStart = 0
    /\ joinLimit = 0
    /\ retval = FALSE
    /\ returnedAt = 0
    /\ srvPc = "off"
    /\ deadline = 0
    /\ selectLimit = 0
    /\ cur = NoReq
    /\ last = NoReq
    /\ nReq = 0
    /\ lookedUp = {}
    /\ setBy = NoReq
    /\ setCalls = 0
    /\ earlyValid = FALSE
    /\ okListening = FALSE
    /\ lock = 0
    /\ thr = [th \in Threads |-> IdleThread]
    /\ nOps = 0
    /\ adds = [n \in Nonces |-> 0]
    /\ regAt = [n \in Nonces |-> 0]
    /\ wins = [n \in Nonces |-> 0]
    /\ expiredPops = [n \in Nonces |-> 0]
    /\ timely = [n \in Nonces |-> FALSE]
    /\ replaced = [n \in Nonces |-> 0]
    /\ nSets = 0
    /\ decidedAt = -1
    /\ waiter = IdleWaiter
    /\ vcall = IdleCall
    /\ call = FirstCall

Next ==
    \/ CallRunServer
    \/ CtrlBind
    \/ CtrlStart
    \/ CtrlJoin
    \/ CtrlClose
    \/ CtrlReturn
    \/ Tick
    \/ SrvInit
    \/ SrvLoop
    \/ SrvSelectEnds
    \/ SrvAccept
    \/ HandleHead
    \/ HandleRead
    \/ HandleLookup
    \/ HandleVerify
    \/ HandleSend200
    \/ HandleSet

Spec == Init /\ [][Next]_vars

\* run_server with the exceptions that can leave it after the socket is bound.
NextExit ==
    \/ Next
    \/ CtrlStartFails
    \/ CtrlInterrupt
    \/ SocketCollected

SpecExit == Init /\ [][NextExit]_vars

\* A process that calls run_server up to MaxCalls times, one call after the
\* other, with peers that hold the device's key.
NextCalls ==
    \/ CallRunServer
    \/ CallRunServerAgain
    \/ CtrlBind
    \/ CtrlStart
    \/ CtrlJoin
    \/ CtrlClose
    \/ CtrlReturn
    \/ Tick
    \/ SrvInit
    \/ SrvLoop
    \/ SrvSelectEnds
    \/ SrvAcceptSigned
    \/ HandleHead
    \/ HandleRead
    \/ HandleLookup
    \/ HandleVerify
    \/ HandleSend200
    \/ HandleSet

\* The cryptography package is installed.
InitCalls == Init /\ HAS_CRYPTO

SpecCalls == InitCalls /\ [][NextCalls]_vars

NextApi ==
    \/ \E th \in Threads : ApiCall(th)
    \/ \E th \in Threads : ApiAcquire(th)
    \/ \E th \in Threads : ApiAdd(th)
    \/ \E th \in Threads : ApiPop(th)
    \/ \E th \in Threads : ApiCheck(th)
    \/ \E th \in Threads : ApiReturn(th)
    \/ ApiTick

\* The methods do not depend on the cryptography package.
InitApi == Init /\ HAS_CRYPTO

SpecApi == InitApi /\ [][NextApi]_vars

NextCell ==
    \/ CellSet
    \/ CellWaitCall
    \/ CellWake
    \/ CellWaitReturn
    \/ CellTick

SpecCell == InitApi /\ [][NextCell]_vars

NextVerify ==
    \/ VerifyCall
    \/ VerifyEnd

SpecVerify == Init /\ [][NextVerify]_vars

(* ------------------------------------------------------------------ claims *)

\* What a request that may set the outcome must have gone through: it was a
\* POST /auth/response whose nonce the lookup found registered, not looked up
\* before and no older than the TTL, and whose signature decodes and is accepted
\* by verify_signature under the configured key over the bytes of that nonce.
Committable(c) ==
    /\ c.req.method = "POST" /\ c.req.path = "/auth/response"
    /\ c.consulted /\ c.present /\ ~c.replay /\ c.age <= Ttl
    /\ c.req.body.nonce.t = "str"
    /\ c.key = device_pubkey_pem
    /\ b64decode(c.req.body.signature).st = "ok"
    /\ verify_signature(HAS_CRYPTO, device_pubkey_pem, Encode(c.req.body.nonce.v),
                        b64decode(c.req.body.signature).bytes)

\* C1: the outcome is True only if a handled POST /auth/response carried a nonce
\* that was registered, unconsumed and within its TTL when it was looked up, and
\* a signature verify_signature accepts under the configured key over the bytes
\* of that nonce; no other request is answered 200 or sets the outcome.
C1_OutcomeOnlyByValidRequest ==
    /\ auth_result.result = "True" => setCalls > 0
    /\ setCalls > 0 => Committable(setBy)
    /\ srvPc \in {"send200", "set"} => Committable(cur)
    /\ last.status = 200 => Committable(last)

\* C1 witness: the outcome was set by a request whose nonce was exactly TTL old.
C1_Witness ==
    /\ auth_result.result = "True"
    /\ setBy.age = Ttl
    /\ setBy.req.body.signature = SigEc

\* C2: per nonce, no more calls of validate_and_consume return the payload than
\* there were registrations; for a nonce registered once, as soon as a call made
\* after the registration has returned within the TTL, exactly one call has
\* returned the payload, whatever the interleaving of the calling threads.
C2_ExactlyOneWinner ==
    \A n \in Nonces :
        /\ wins[n] <= adds[n]
        /\ adds[n] = 1 /\ timely[n] => wins[n] = 1

\* C2 witness: after the winner, a second call on the nonce is about to return
\* empty while a third thread waits for the lock.
C2_Witness ==
    /\ adds["n1"] = 1 /\ wins["n1"] = 1
    /\ \E a, b \in Threads :
         /\ a # b
         /\ thr[a].pc = "release" /\ thr[a].op = "consume" /\ thr[a].nonce = "n1"
         /\ thr[a].after /\ thr[a].ret = "None"
         /\ thr[b].pc = "acquire" /\ thr[b].op = "consume" /\ thr[b].nonce = "n1"

\* C3: a request that reaches the lookup with a nonce already looked up since its
\* registration is answered 403, gets no further than the lookup, and never sets
\* the outcome, whether or not its signature is valid.
C3_SingleAttemptPerNonce ==
    /\ ~cur.replay
    /\ last.replay => last.status = 403
    /\ ~setBy.replay

\* C3 witness: after a first attempt on n1, a second request with n1 and a
\* signature the configured key accepts has been answered 403.
C3_Witness ==
    /\ last.replay /\ last.status = 403
    /\ ValidRequest(last.req)
    /\ auth_result.result = "None"

\* C4: a call that found the entry returns empty exactly when the entry's age
\* exceeds the TTL (an age equal to the TTL returns the payload); the entry is
\* gone from the pop on in both cases; each registration yields at most one
\* returned payload or one expired removal, never both.
C4_ExpiryAtConsume ==
    /\ \A th \in Threads :
         thr[th].pc = "release" /\ thr[th].op = "consume" /\ thr[th].entry # NoEntry
            => (thr[th].ret = "None" <=> thr[th].age > Ttl)
    /\ \A th \in Threads :
         thr[th].pc \in {"popped", "release"} /\ thr[th].op = "consume"
            => thr[th].nonce \notin DOMAIN challenges
    /\ \A n \in Nonces : wins[n] + expiredPops[n] <= adds[n]

\* C4 witness: a call has removed an expired entry and returned empty, and
\* another call is returning the payload of an entry exactly TTL old.
C4_Witness ==
    /\ \E n \in Nonces : expiredPops[n] = 1
    /\ \E th \in Threads :
         /\ thr[th].pc = "release" /\ thr[th].op = "consume"
         /\ thr[th].entry # NoEntry
         /\ thr[th].age = Ttl /\ thr[th].ret = "cmd"

\* C5 (as claimed): once a valid request has been answered 200 while run_server
\* was still listening, run_server returns True.
C5_ValidRequestReturnsTrue ==
    ctrlPc = "returned" /\ okListening => retval

\* C6 (as claimed): if no valid request was accepted before serve()'s deadline,
\* run_server returns False and the outcome stays undecided.
C6_NoneAfterDeadline ==
    ctrlPc = "returned" /\ ~earlyValid => ~retval /\ auth_result.result = "None"

\* C7: from its call on, run_server is back within timeout + 2, whatever the
\* peers do, a peer that never sends the body it declared included.
C7_ReturnsWithinGrace ==
    /\ ctrlPc \in {"bind", "start", "join", "close", "result"}
          => now <= callStart + Timeout + Grace
    /\ ctrlPc \in {"returned", "raised"} => returnedAt <= callStart + Timeout + Grace

\* C7 witness: run_server returned when the join gave up, the handler still
\* blocked reading a body the peer never sent.
C7_Witness ==
    /\ ctrlPc = "returned"
    /\ returnedAt = callStart + Timeout + Grace
    /\ srvPc = "read"
    /\ ReadBlocks(ContentLength(cur.req).n, cur.req.sent, cur.req.eof)

\* C8 (as claimed): once decided, the stored outcome never changes.
C8_WriteOnce ==
    [][auth_result.result # "None" => auth_result'.result = auth_result.result]_vars

\* C9 (as claimed): a request answered 413 had no body byte read, and no request
\* has more than 4096 body bytes read.
C9_BodyAtMost4096 ==
    /\ last.status = 413 => last.read = 0
    /\ last.read <= MaxBody
    /\ cur.read <= MaxBody

\* The body as read is a JSON object with both fields non-empty strings.
WellFormed(c) ==
    LET payload == JsonLoads(c.req.body, c.read)
    IN  /\ payload.st = "ok" /\ payload.kind = "obj"
        /\ payload.nonce.t = "str" /\ payload.nonce.v # ""
        /\ payload.signature.t = "str" /\ payload.signature.v # ""

\* C10 (as claimed): a POST /auth/response within the size limit whose body is
\* not a JSON object with both string fields is answered 400 without the
\* registry being consulted.
C10_MalformedIs400 ==
    /\ last.req.method = "POST" /\ last.req.path = "/auth/response"
    /\ ContentLength(last.req).ok /\ ~TooLarge(ContentLength(last.req).n)
    /\ ~WellFormed(last)
    => last.status = 400 /\ ~last.consulted

\* C11 (as claimed): a request whose method is not POST or whose path is not
\* /auth/response is answered 404, with no body byte read and no nonce looked up.
C11_OtherRouteIs404 ==
    /\ last # NoReq /\ (last.req.method # "POST" \/ last.req.path # "/auth/response")
          => last.status = 404 /\ last.read = 0 /\ ~last.consulted
    /\ cur # NoReq /\ (cur.req.method # "POST" \/ cur.req.path # "/auth/response")
          => srvPc = "head" /\ cur.read = 0 /\ ~cur.consulted

\* C12: when the cryptography package is missing, verify_signature returns False
\* for every key, message and signature, no request reaches the 200 and the
\* outcome is never True.
C12_FailClosed ==
    ~HAS_CRYPTO =>
        /\ \A pem \in Pems \cup {"None"}, msg \in Msgs, sig \in Sigs :
              ~verify_signature(HAS_CRYPTO, pem, msg, sig)
        /\ srvPc \notin {"send200", "set"}
        /\ cur.status # 200 /\ last.status # 200
        /\ auth_result.result # "True" /\ setCalls = 0

\* C12 witness: without the package, a request with the registered nonce and the
\* device's signature over it went through the lookup and was answered 403.
C12_Witness ==
    /\ ~HAS_CRYPTO
    /\ last.status = 403 /\ last.present /\ ~last.replay /\ last.age <= Ttl
    /\ last.key = "PEM_ED_DEV"
    /\ last.req.body.signature = SigEd
    /\ Ed25519Verify(LoadPem(last.key), b64decode(SigEd).bytes, Encode("n1"))

\* C13: verify_signature never raises and returns a boolean for every key input
\* (a key of a supported family, a key of an unsupported family, text that is no
\* PEM, the unset key) and every signature; it returns False when the key does
\* not load, when its family is unsupported and when the signature is malformed
\* or does not match; it calls the verify method of the key's own family only,
\* and at most one.
C13_VerifyTotal ==
    /\ vcall.pc # "raised"
    /\ vcall.pc = "returned" =>
         LET key == LoadPem(vcall.pem)
             out == vcall.out
         IN  /\ out.exc = "none"
             /\ out.ret \in BOOLEAN
             /\ ~key.ok => ~out.ret /\ out.paths = {}
             /\ key.family \notin {"ed25519", "ec"} => ~out.ret /\ out.paths = {}
             /\ vcall.sig = GarbageSig => ~out.ret
             /\ (vcall.sig.by # key.id \/ vcall.sig.over # vcall.msg) => ~out.ret
             /\ key.family = "ed25519" /\ vcall.sig.alg # "ed25519" => ~out.ret
             /\ key.family = "ec" /\ vcall.sig.alg # "ecdsa" => ~out.ret
             /\ out.paths \subseteq {key.family}
             /\ out.ret => HAS_CRYPTO /\ out.paths = {key.family}

\* C13 witness: given the device's EC key and an Ed25519 signature over the
\* message, the call returned False having tried the ECDSA path only.
C13_Witness ==
    /\ HAS_CRYPTO
    /\ vcall.pc = "returned"
    /\ vcall.pem = "PEM_EC_DEV"
    /\ vcall.sig = Sig("ed25519", "dev_ed", vcall.msg)
    /\ vcall.out = [exc |-> "none", ret |-> FALSE, paths |-> {"ec"}]

\* C14: once the outcome is decided the server thread is in its loop test or has
\* ended: it waits for no connection and handles no request, and the last request
\* handled is the one that set the outcome, completed with its 200.
C14_NoRequestAfterOutcome ==
    auth_result.result # "None" =>
        /\ srvPc \in {"loop", "done"}
        /\ cur = NoReq
        /\ last = setBy /\ last.status = 200

\* C14 witness: the outcome was set by the first request well before the
\* deadline; the thread has ended with the socket still bound and connections
\* still allowed.
C14_Witness ==
    /\ auth_result.result = "True"
    /\ srvPc = "done"
    /\ socket = "bound"
    /\ now < deadline
    /\ nReq < MaxRequests

\* C15 (as claimed): when run_server has exited, by returning or by an exception,
\* the listening socket is not bound.
C15_SocketReleasedAtExit ==
    ctrlPc \in {"returned", "raised"} => socket # "bound"

\* C16 (as claimed): the handling of a request answered 400 removed no entry from
\* the registry and did not set the outcome.
C16_BadRequestChangesNothing ==
    last.status = 400 => ~last.present /\ setBy # last

\* C17: within one run_server call the outcome is undecided until the one call
\* of auth_result.set, and True from then on: set is called at most once, the
\* outcome is never False and never undecided again.
C17_OutcomeSetOnce ==
    /\ setCalls <= 1
    /\ auth_result.result \in {"None", "True"}
    /\ auth_result.result = "None" <=> setCalls = 0
    /\ auth_result.event <=> setCalls = 1

\* C17 witness: the outcome was set by the second request of the call, after a
\* first request that was rejected, and the server thread has ended.
C17_Witness ==
    /\ setCalls = 1 /\ auth_result.result = "True"
    /\ nReq = 2
    /\ srvPc = "done"

\* C18 (as claimed): the outcome is set only by a request whose 200 has been
\* sent, and every request that passed the lookup and the verification ends with
\* the outcome True.
C18_AckThenCommit ==
    /\ srvPc = "set" => cur.status = 200
    /\ setCalls > 0 => setBy.status = 200
    /\ last # NoReq /\ Committable(last) => auth_result.result = "True"

\* A validate_and_consume call on nonce n that has popped an entry and not yet
\* returned.
Popped(n) ==
    {th \in Threads : /\ thr[th].pc \in {"popped", "release"} /\ thr[th].op = "consume"
                      /\ thr[th].nonce = n /\ thr[th].entry # NoEntry}

\* C19: the registry holds at most one entry per nonce, which is the latest
\* registration: its payload is the latest payload and its TTL runs from the
\* latest registration; a registration over a present entry replaces it, so each
\* registration ends in exactly one way (replaced, still stored, popped and
\* returned once, or popped expired) and a call that returns a payload returns
\* the latest one.
C19_ReRegistrationReplaces ==
    \A n \in Nonces :
        /\ n \in DOMAIN challenges =>
              /\ adds[n] > 0
              /\ challenges[n] = [data |-> ChallengeData(adds[n] - 1), created |-> regAt[n]]
        /\ \A th \in Popped(n) :
              /\ thr[th].entry = [data |-> ChallengeData(adds[n] - 1), created |-> regAt[n]]
              /\ thr[th].pc = "release" =>
                    /\ thr[th].ret \in {"None", ChallengeData(adds[n] - 1)}
                    /\ thr[th].ret = "None" <=> thr[th].age > Ttl
        /\ adds[n] = replaced[n] + wins[n] + expiredPops[n] + Cardinality(Popped(n))
                        + (IF n \in DOMAIN challenges THEN 1 ELSE 0)

\* C19 witness: n1 was registered twice, the second time over the first entry;
\* a call returns the second payload, its entry exactly TTL old counted from the
\* second registration, and no call has returned the first payload.
C19_Witness ==
    /\ adds["n1"] = 2 /\ replaced["n1"] = 1 /\ wins["n1"] = 0
    /\ regAt["n1"] > 0
    /\ \E th \in Threads :
         /\ thr[th].pc = "release" /\ thr[th].op = "consume" /\ thr[th].nonce = "n1"
         /\ thr[th].ret = ChallengeData(1)
         /\ thr[th].age = Ttl

\* C20 (as claimed): wait returns true only if the outcome was set before it
\* returned; it returns false when it returns with the outcome still undecided,
\* and then not before its timeout; once the outcome is set it returns at once:
\* at the time of the set, or of the call when the outcome was set already.
C20_WaitResult ==
    waiter.pc = "returned" =>
        /\ waiter.ret = "True" => decidedAt >= 0 /\ decidedAt <= waiter.at
        /\ auth_result.result = "None" => waiter.ret = "False" /\ waiter.at = waiter.limit
        /\ waiter.at <= waiter.limit
        /\ decidedAt >= 0 /\ decidedAt < waiter.limit =>
              waiter.at = IF decidedAt > waiter.from THEN decidedAt ELSE waiter.from

\* C21 (as claimed): when run_server has returned, a request of that call that
\* was answered 200, before or after the return, means it returned True.
C21_PeerAndCallerAgree ==
    ctrlPc = "returned" /\ (cur.status = 200 \/ last.status = 200) => retval

\* C22 (as claimed): a run_server call that returned True had its outcome set
\* during that call, by a request that carried the nonce the call registered and
\* passed the lookup and the verification.
C22_SuccessIsOfThisCall ==
    ctrlPc = "returned" /\ retval =>
        /\ setCalls > call.sets0
        /\ setBy.req.body.nonce = JStr(call.nonce)
        /\ Committable(setBy)

\* C23 (as claimed): the handling of every POST request ends with a response of
\* status 200, 400, 403, 404 or 413, never with an uncaught exception.
C23_HandlerTotal ==
    last # NoReq /\ last.req.method = "POST" => last.status \in {200, 400, 403, 404, 413}

\* A request of a peer that does not know a registered nonce: a POST to another
\* path (404), one declaring more than 4096 bytes (413), or one whose nonce is
\* not in the registry when it is looked up.
Outsider(c) ==
    /\ c.req.method = "POST"
    /\ \/ c.req.path # "/auth/response"
       \/ ContentLength(c.req).ok /\ TooLarge(ContentLength(c.req).n)
       \/ IF c.consulted THEN ~c.present
          ELSE c.req.body.nonce.t # "str" \/ c.req.body.nonce.v \notin DOMAIN challenges

\* C24: no step of the handling of such a request changes the registry or the
\* outcome.
C24_OutsiderChangesNothing ==
    [][(srvPc \in {"head", "read", "lookup", "verify", "send200", "set"} /\ Outsider(cur))
          => (challenges' = challenges /\ auth_result' = auth_result)]_vars

\* C24 witness: a request with the unknown nonce n2 was looked up and rejected,
\* and the request after it, with the registered nonce, then set the outcome.
C24_Witness ==
    /\ "n2" \in lookedUp
    /\ nReq = 2
    /\ auth_result.result = "True"
    /\ setBy.req.body.nonce = JStr("n1") /\ setBy.present

====
